---- MODULE Spec2Model ----
(***************************************************************************)
(* Model of the MUSOLSONG sequence processing engine: the foreground       *)
(* engine MusolsongCLI (controller/cli/sequence_processor.py) and the      *)
(* background engine ProcessingWorker (controller/gui/                     *)
(* background_QT_processing.py) together with the slots of MusolSongApp    *)
(* (controller/gui/main_Qt_window.py) that start, abort and finish a run.  *)
(*                                                                         *)
(* A device call is two steps, the call and its return, so that an abort   *)
(* request can arrive while the call is in flight.  `trace` is the history *)
(* of one run in program order: device calls and their returns, reads of   *)
(* the abort flag, emitted signals, stop messages and the final verdict.   *)
(***************************************************************************)
EXTENDS Integers, Sequences, FiniteSets, TLC

(* ---------------------------- bounds ---------------------------------- *)
MaxMods == 2
MaxCycles == 4
MaxRuns == 2
MaxEntries == 2
MaxValidations == 2

(* ------------------------ program constants --------------------------- *)
NO_THETA == 999
SUCCESS == 0
ERR_PLC_FAILURE == 8
ERR_TIMEOUT == 9
SONG_ERROR == 1
ABORT_RETVAL_CLI == 2
STOP_RETVAL == 1

(* Python None for a text value; an optional number is Nothing or Some(n) *)
None == "<None>"
Nothing == << >>
Some(x) == << x >>

(* ------------------------ the sequence plan --------------------------- *)
(* Validated Modulation objects a plan is built from; the i-th modulation  *)
(* of a plan is ModPool[i], so that a reordering shows in the arguments.   *)
ModPool ==
    << [alpha |-> 45, beta |-> 90, SONG_int_time |-> 2, description |-> "first"],
       [alpha |-> -30, beta |-> 60, SONG_int_time |-> 3, description |-> ""],
       [alpha |-> 0, beta |-> -180, SONG_int_time |-> 300, description |-> None],
       [alpha |-> 180, beta |-> 0, SONG_int_time |-> 1, description |-> "last"] >>

(* retarding_plate_offsets values the validator accepts (integer factors   *)
(* of 360), within the cycle bound.                                        *)
Offsets == {o \in 1..360 : 360 % o = 0 /\ 360 \div o <= MaxCycles}

(* variant: the cycle loop counted with both end points, 0 and 360 *)
get_number_of_cycles_inclusive(retarding_plate_offsets) ==
    IF retarding_plate_offsets # Nothing
    THEN Some((360 \div retarding_plate_offsets[1]) + 1)
    ELSE Nothing

get_number_of_cycles(retarding_plate_offsets) ==
    IF retarding_plate_offsets # Nothing
    THEN Some(360 \div retarding_plate_offsets[1])
    ELSE Nothing

Plans ==
    { [mode |-> "observation", modulations |-> SubSeq(ModPool, 1, n),
       retarding_plate_offsets |-> Nothing] : n \in 1..MaxMods }
    \cup
    { [mode |-> "calibration", modulations |-> SubSeq(ModPool, 1, n),
       retarding_plate_offsets |-> Some(o)] : n \in 1..MaxMods, o \in Offsets }

upper(mode) == IF mode = "observation" THEN "OBSERVATION" ELSE "CALIBRATION"

(* prepare_data_for_processing: the dictionary handed to the engine.       *)
prepare_data_for_processing(data) ==
    LET cycles == get_number_of_cycles(data.retarding_plate_offsets) IN
    [ modulations |-> data.modulations,
      op_mode |-> upper(data.mode),
      modulations_count |-> Len(data.modulations),
      number_of_cycles |-> IF cycles = Nothing THEN 1 ELSE cycles[1],
      offset_angle |-> IF cycles = Nothing THEN 0 ELSE data.retarding_plate_offsets[1] ]

(* ------------------------ the sequence validator ---------------------- *)
(* What yaml.safe_load returns, tagged with its Python type.  A number is  *)
(* kept as a count of halves (45 is 90 halves, 7.5 is 15), which every     *)
(* double holds exactly, so that %, <= and int() are the exact ones.       *)
YInt(n) == [type |-> "int", halves |-> 2 * n]

YFloat(h) == [type |-> "float", halves |-> h]

YStr(text) == [type |-> "str", text |-> text]

YNone == [type |-> "NoneType"]

YList(elems) == [type |-> "list", elems |-> elems]

YDict(items) == [type |-> "dict", items |-> items]

(* The document _load_yaml cannot load: it raises ValidationError. *)
Unloadable == [type |-> "unloadable"]

(* isinstance(x, (int, float)); bool is a subclass of int *)
isinstance_number(x) == x.type \in {"int", "float", "bool"}

isinstance_dict(x) == x.type = "dict"

(* Modulation entries a document is built from. *)
EntryPool ==
    { YDict([alpha |-> YInt(45), beta |-> YInt(90), SONG_int_time |-> YInt(2),
             description |-> YStr("first")]),
      YDict([alpha |-> YFloat(-61), beta |-> YInt(60), SONG_int_time |-> YFloat(1)]),
      YDict([alpha |-> YInt(-180), beta |-> YInt(180), SONG_int_time |-> YInt(300),
             description |-> YNone]),
      YDict([alpha |-> YInt(200), beta |-> YInt(90), SONG_int_time |-> YInt(2)]),
      YDict([alpha |-> YInt(45), beta |-> YStr("ninety"), SONG_int_time |-> YInt(2)]),
      YDict([alpha |-> YInt(45), beta |-> YInt(90), SONG_int_time |-> YInt(0)]),
      YDict([alpha |-> YInt(45), beta |-> YInt(90), SONG_int_time |-> YFloat(601)]),
      YDict([alpha |-> YInt(45), beta |-> YInt(90)]),
      YDict([alpha |-> YInt(45), beta |-> YInt(90), SONG_int_time |-> YInt(2),
             description |-> YInt(7)]),
      YStr("alpha: 45") }

(* retarding_plate_offsets values a document is built from *)
OffsetPool ==
    { YInt(45), YInt(90), YInt(7), YInt(360), YInt(0), YInt(361), YFloat(15),
      YFloat(90), YStr("45") }

EntryLists == UNION { [1..n -> EntryPool] : n \in 0..MaxEntries }

ObservationDocs ==
    { YDict([modes |-> YDict([observation |-> YDict([modulations |-> YList(l)])])]) :
        l \in EntryLists }

CalibrationDocs ==
    { YDict([modes |-> YDict([calibration |->
                YDict([modulations |-> YList(l), retarding_plate_offsets |-> o])])]) :
        l \in EntryLists, o \in OffsetPool }
    \cup
    { YDict([modes |-> YDict([calibration |-> YDict([modulations |-> YList(l)])])]) :
        l \in EntryLists }

OneEntry == << YDict([alpha |-> YInt(45), beta |-> YInt(90), SONG_int_time |-> YInt(2)]) >>

MalformedDocs ==
    { Unloadable, YNone, YStr("modes"), YList(<< YStr("modes") >>),
      YDict([project |-> YStr("sun")]),
      YDict([modes |-> YNone]),
      YDict([modes |-> YList(<< YStr("observation") >>)]),
      YDict([modes |-> YDict([engineering |-> YNone])]),
      YDict([modes |-> YDict([observation |-> YDict([modulations |-> YList(OneEntry)]),
                              calibration |-> YDict([modulations |-> YList(OneEntry),
                                                     retarding_plate_offsets |-> YInt(45)])])]),
      YDict([modes |-> YDict([observation |-> YNone])]),
      YDict([modes |-> YDict([observation |-> YDict([steps |-> YList(OneEntry)])])]),
      YDict([modes |-> YDict([calibration |-> YDict([modulations |-> YStr("none")])])]) }

Docs == ObservationDocs \cup CalibrationDocs \cup MalformedDocs

(* _validate_angle: the messages it appends; none means valid *)
validate_angle(angle, angle_name, index) ==
    IF ~isinstance_number(angle)
    THEN << [index |-> index, field |-> angle_name, msg |-> "must be a number"] >>
    ELSE IF ~(-360 <= angle.halves /\ angle.halves <= 360)
    THEN << [index |-> index, field |-> angle_name,
             msg |-> "must be between -180 and 180 degrees"] >>
    ELSE << >>

(* _validate_integration_time: 0.1 <= t <= 300, and a count of halves is   *)
(* at least 0.1 exactly when it is at least one half                       *)
validate_integration_time(int_time, index) ==
    IF ~isinstance_number(int_time)
    THEN << [index |-> index, field |-> "SONG_int_time", msg |-> "must be a number"] >>
    ELSE IF ~(1 <= int_time.halves /\ int_time.halves <= 600)
    THEN << [index |-> index, field |-> "SONG_int_time",
             msg |-> "must be between 0.1 and 300 seconds"] >>
    ELSE << >>

(* _validate_retarding_plate_offsets: 360 % offsets on halves is           *)
(* 720 % halves                                                            *)
validate_retarding_plate_offsets(offsets) ==
    IF ~isinstance_number(offsets)
    THEN << [index |-> -1, field |-> "retarding_plate_offsets", msg |-> "must be a number"] >>
    ELSE IF ~(2 <= offsets.halves /\ offsets.halves <= 720)
    THEN << [index |-> -1, field |-> "retarding_plate_offsets",
             msg |-> "must be between 1 and 360 degrees"] >>
    ELSE IF 720 % offsets.halves # 0
    THEN << [index |-> -1, field |-> "retarding_plate_offsets",
             msg |-> "must be a factor of 360"] >>
    ELSE << >>

(* int(x) of a positive number held in halves *)
int_of(x) == x.halves \div 2

has_key(d, key) == key \in DOMAIN d.items

(* _validate_modulation: the Modulation built, or None, and the messages   *)
validate_modulation(modulation, index) ==
    IF ~isinstance_dict(modulation)
    THEN [mod |-> Nothing,
          errs |-> << [index |-> index, field |-> "", msg |-> "must be a dictionary"] >>]
    ELSE IF \E f \in {"alpha", "beta", "SONG_int_time"} : ~has_key(modulation, f)
    THEN [mod |-> Nothing,
          errs |-> << [index |-> index,
                       field |-> IF ~has_key(modulation, "alpha") THEN "alpha"
                                 ELSE IF ~has_key(modulation, "beta") THEN "beta"
                                 ELSE "SONG_int_time",
                       msg |-> "missing required field"] >>]
    ELSE
      LET m == modulation.items
          alpha_errs == validate_angle(m.alpha, "alpha", index)
          beta_errs == validate_angle(m.beta, "beta", index)
          int_time_errs == validate_integration_time(m.SONG_int_time, index)
          errs == alpha_errs \o beta_errs \o int_time_errs
          description == IF has_key(modulation, "description") THEN m.description
                         ELSE YNone
      IN  IF description.type \notin {"NoneType", "str"}
          THEN [mod |-> Nothing,
                errs |-> Append(errs, [index |-> index, field |-> "description",
                                       msg |-> "must be a string"])]
          ELSE IF errs = << >>
          THEN [mod |-> Some([alpha |-> m.alpha.halves, beta |-> m.beta.halves,
                              SONG_int_time |-> m.SONG_int_time.halves,
                              description |-> IF description.type = "str"
                                              THEN description.text ELSE None]),
                errs |-> << >>]
          ELSE [mod |-> Nothing, errs |-> errs]

(* The loop of _validate_mode over the entries from position i on:         *)
(* the valid ones in order, and every message.                             *)
RECURSIVE validate_each(_, _)
validate_each(modulations, i) ==
    IF i > Len(modulations)
    THEN [valid |-> << >>, errs |-> << >>]
    ELSE LET validated_mod == validate_modulation(modulations[i], i - 1)
             rest == validate_each(modulations, i + 1)
         IN  [valid |-> validated_mod.mod \o rest.valid,
              errs |-> validated_mod.errs \o rest.errs]

(* The fields validate() sets at its head (and __init__ at construction).  *)
validate_reset(v) ==
    [errors |-> << >>, is_valid_flag |-> FALSE, mode_type |-> None,
     modulations |-> << >>, retarding_plate_offsets |-> Nothing]

FreshValidator == validate_reset(<< >>)

(* YAMLSequenceValidator.is_valid(): return self.errors.copy() *)
is_valid(v) == YList(v.errors)

Fail(v, errs) == [state |-> [v EXCEPT !.errors = v.errors \o errs], ret |-> "False"]

(* _validate_mode on the validator state v *)
validate_mode(v, mode_name, mode_data) ==
    IF ~isinstance_dict(mode_data)
    THEN Fail(v, << [index |-> -1, field |-> mode_name, msg |-> "must be a dictionary"] >>)
    ELSE IF ~has_key(mode_data, "modulations")
    THEN Fail(v, << [index |-> -1, field |-> mode_name,
                     msg |-> "missing required field: modulations"] >>)
    ELSE LET modulations == mode_data.items.modulations IN
    IF modulations.type # "list"
    THEN Fail(v, << [index |-> -1, field |-> mode_name,
                     msg |-> "modulations must be a list"] >>)
    ELSE IF Len(modulations.elems) = 0
    THEN Fail(v, << [index |-> -1, field |-> mode_name,
                     msg |-> "must have at least one modulation"] >>)
    ELSE LET each == validate_each(modulations.elems, 1)
             v1 == [v EXCEPT !.errors = v.errors \o each.errs]
         IN
    IF each.valid = << >>
    THEN [state |-> v1, ret |-> "False"]
    ELSE LET v2 == [v1 EXCEPT !.modulations = each.valid] IN
    IF mode_name # "calibration"
    THEN [state |-> v2, ret |-> "True"]
    ELSE IF ~has_key(mode_data, "retarding_plate_offsets")
    THEN Fail(v2, << [index |-> -1, field |-> "retarding_plate_offsets",
                      msg |-> "missing required field"] >>)
    ELSE LET offsets == mode_data.items.retarding_plate_offsets
             offsets_errs == validate_retarding_plate_offsets(offsets)
         IN
    IF offsets_errs # << >>
    THEN Fail(v2, offsets_errs)
    ELSE [state |-> [v2 EXCEPT !.retarding_plate_offsets = Some(int_of(offsets))],
          ret |-> "True"]

(* validate() on the document d: the validator's fields afterwards and     *)
(* what the call returned, "KeyError" when self.data['modes'] raised.      *)
validate_document(v, d) ==
    LET v0 == validate_reset(v) IN
    IF d = Unloadable
    THEN Fail(v0, << [index |-> -1, field |-> "", msg |-> "Invalid YAML format"] >>)
    ELSE IF ~isinstance_dict(d)
    THEN Fail(v0, << [index |-> -1, field |-> "", msg |-> "YAML root must be a dictionary"] >>)
    ELSE IF ~has_key(d, "modes")
    THEN [state |-> v0, ret |-> "KeyError"]
    ELSE LET modes == d.items.modes IN
    IF ~isinstance_dict(modes)
    THEN Fail(v0, << [index |-> -1, field |-> "modes", msg |-> "must be a dictionary"] >>)
    ELSE LET present_modes ==
                 SelectSeq(<< "observation", "calibration" >>,
                           LAMBDA mode : has_key(modes, mode))
         IN
    IF Len(present_modes) = 0
    THEN Fail(v0, << [index |-> -1, field |-> "modes",
                      msg |-> "At least one mode must be present"] >>)
    ELSE IF Len(present_modes) > 1
    THEN Fail(v0, << [index |-> -1, field |-> "modes",
                      msg |-> "Only one mode can be present"] >>)
    ELSE LET mode_name == present_modes[1]
             r == validate_mode([v0 EXCEPT !.mode_type = mode_name], mode_name,
                                modes.items[mode_name])
         IN  IF r.ret = "True"
             THEN [state |-> [r.state EXCEPT !.is_valid_flag = TRUE], ret |-> "True"]
             ELSE r

VARIABLES
    doc,              \* validator: what the YAML source holds
    validator,        \* validator: the fields of the YAMLSequenceValidator
    v_return,         \* validator: what the last validate() returned
    v_calls,          \* validator: number of validate() calls so far
    cli,              \* the command line program around MusolsongCLI
    prev,             \* how the run before the current one ended
    engine,           \* "CLI": MusolsongCLI, "GUI": MusolSongApp + ProcessingWorker
    logger,           \* TRUE: a SystemLogger, FALSE: None (system logs disabled)
    current_seq_data, \* the validated plan
    musol_connected,  \* plc_client.is_connected()
    song_connected,   \* song_client.is_connected()
    musol_attr,       \* CLI: self.musol / self.song have been assigned
    call_connected,   \* the callee's client was connected when the pending call began
    abort_flag,       \* is_aborting (CLI) / _abort_flag (worker)
    pc,               \* position of the engine
    input_data,       \* the dictionary of the current run
    current_cycle,
    current_theta,
    step,
    trace,            \* history of the current run
    result,           \* what the last call returned / the worker last reported
    mainq,            \* GUI: signals queued for the main thread
    ui,               \* GUI: widgets and attributes of MusolSongApp
    runs              \* number of runs requested so far

vvars == << doc, validator, v_return, v_calls >>

vars == << doc, validator, v_return, v_calls, cli, prev, engine, logger, current_seq_data, musol_connected, song_connected,
           musol_attr, call_connected, abort_flag, pc, input_data, current_cycle,
           current_theta, step, trace, result, mainq, ui, runs >>

NoData == [ modulations |-> << >>, op_mode |-> "OBSERVATION", modulations_count |-> 0,
            number_of_cycles |-> 0, offset_angle |-> 0 ]

(* The engine and the window after construction. *)
EngineInit ==
    /\ engine \in {"CLI", "GUI"}
    /\ logger \in BOOLEAN
    /\ current_seq_data \in Plans
    /\ musol_connected \in BOOLEAN
    /\ song_connected \in BOOLEAN
    /\ musol_attr = FALSE
    /\ call_connected = FALSE
    /\ abort_flag = FALSE
    /\ pc = "idle"
    /\ input_data = NoData
    /\ current_cycle = 0
    /\ current_theta = 0
    /\ step = 0
    /\ trace = << >>
    /\ result = "None"
    /\ mainq = << >>
    /\ ui = [ process_button |-> TRUE, abort_button |-> FALSE, worker |-> FALSE,
              progress_bar |-> 0, report |-> None, closed |-> FALSE ]
    /\ runs = 0
    /\ prev = "none"

(* MusolsongCLI used as a library object: its methods are called by a      *)
(* program other than run_cli_mode, on a sequence file that validates.     *)
Library == [pc |-> "library", exit_code |-> "None", validate_only |-> FALSE,
            file_valid |-> TRUE, abort_raised |-> FALSE]

(* The runs of the engine: the plan is a validated one, the validator is   *)
(* not exercised.                                                          *)
Init ==
    /\ EngineInit
    /\ cli = Library
    /\ doc = YNone
    /\ validator = FreshValidator
    /\ v_return = "None"
    /\ v_calls = 0

(* ------------------- decisions taken by the engine -------------------- *)
(* process_modulations: what current_theta turns into for the two devices. *)
theta_deg_for_PLC(theta_arg) == IF theta_arg # NO_THETA THEN Some(theta_arg) ELSE Nothing

theta_deg_for_SONG(theta_arg) == theta_arg

image_type(theta_arg) == IF theta_arg # NO_THETA THEN "CALIB" ELSE "SUN"

description_for_SONG(description) ==
    IF description = None \/ description = "" THEN " " ELSE description

(* variant: the running angle is passed in both modes *)
theta_argument_unconditional(op_mode, theta) == theta

(* The value process_modulation_data passes as current_theta.              *)
theta_argument(op_mode, theta) == IF op_mode = "OBSERVATION" THEN NO_THETA ELSE theta

(* What process_modulations returns at an abort check that finds the flag  *)
(* set, and which return values make process_modulation_data stop.         *)
(* variant: an abort found by the check is returned as success *)
abort_retval_success(eng) == SUCCESS

(* variant: the worker returns the foreground engine's abort value *)
abort_retval_as_cli(eng) == ABORT_RETVAL_CLI

abort_retval(eng) == IF eng = "CLI" THEN ABORT_RETVAL_CLI ELSE STOP_RETVAL

(* variant: only the abort value stops the run *)
stops_run_on_abort_only(eng, retval) == retval >= 2

stops_run(eng, retval) == IF eng = "CLI" THEN retval >= 1 ELSE retval = 1

(* variant: the flag is honoured in the first cycle only *)
is_aborted_first_cycle == abort_flag /\ current_cycle <= 1

(* variant: the check reads a value that is never updated *)
is_aborted_stale == FALSE

(* is_aborted(): the flag, read under the mutex in the worker *)
is_aborted == abort_flag

(* variant: the error code looked up one position early *)
positioner_failed_wrong_index(return_PLC_values) == return_PLC_values[4] # 0

(* error_var = return_PLC_values[4], the last of the five values, and the  *)
(* test error_var != 0                                                     *)
positioner_failed(return_PLC_values) == return_PLC_values[5] # 0

(* variant: only negative codes count as errors *)
mode_rejected_negative(code) == code < 0

(* mode_status != 0 / the else of retval == 0 *)
mode_rejected(code) == code # 0

(* int(sofar / total * 100) in double arithmetic: the pairs (sofar, total) *)
(* with total < 400 where the product lands just below the integer that    *)
(* exact arithmetic gives, so that int() yields one less.                  *)
FloatTruncatesBelow ==
    { <<29, 50>>, <<29, 100>>, <<57, 100>>, <<58, 100>>, <<87, 150>>, <<58, 200>>,
      <<114, 200>>, <<116, 200>>, <<145, 250>>, <<87, 300>>, <<171, 300>>,
      <<174, 300>>, <<203, 350>> }

(* variant: round() in place of int() *)
int_percent_rounded(sofar, total) == ((100 * sofar) + (total \div 2)) \div total

int_percent(sofar, total) ==
    IF <<sofar, total>> \in FloatTruncatesBelow
    THEN ((100 * sofar) \div total) - 1
    ELSE (100 * sofar) \div total

(* variant: the step reported counts down from the last one *)
prepare_updated_data_countdown(modulations_count, number_of_cycles, cycle, stp, alpha, beta, theta, translation_unit, SONG_int_time) ==
    [ percetage_done |-> int_percent(((cycle - 1) * modulations_count) + stp - 1,
                                     modulations_count * number_of_cycles),
      number_of_cycles |-> number_of_cycles,
      current_cycle |-> cycle,
      current_step |-> (modulations_count - stp) + 1,
      alpha |-> alpha,
      beta |-> beta,
      theta |-> theta,
      translation_unit |-> translation_unit,
      SONG_int_time |-> SONG_int_time ]

(* variant: cycle and step passed in the wrong order *)
prepare_updated_data_swapped(modulations_count, number_of_cycles, cycle, stp, alpha, beta, theta, translation_unit, SONG_int_time) ==
    [ percetage_done |-> int_percent(((stp - 1) * modulations_count) + cycle - 1,
                                     modulations_count * number_of_cycles),
      number_of_cycles |-> number_of_cycles,
      current_cycle |-> stp,
      current_step |-> cycle,
      alpha |-> alpha,
      beta |-> beta,
      theta |-> theta,
      translation_unit |-> translation_unit,
      SONG_int_time |-> SONG_int_time ]

prepare_updated_data_for_GUI(modulations_count, number_of_cycles, cycle, stp, alpha, beta, theta, translation_unit, SONG_int_time) ==
    LET total_steps == modulations_count
        total_modulations_to_be_processed == total_steps * number_of_cycles
        modulations_sofar_processsed == ((cycle - 1) * total_steps) + stp - 1
    IN  [ percetage_done |-> int_percent(modulations_sofar_processsed,
                                         total_modulations_to_be_processed),
          number_of_cycles |-> number_of_cycles,
          current_cycle |-> cycle,
          current_step |-> stp,
          alpha |-> alpha,
          beta |-> beta,
          theta |-> theta,
          translation_unit |-> translation_unit,
          SONG_int_time |-> SONG_int_time ]

(* ----------------------------- devices -------------------------------- *)
(* Error codes a positioner call can return, and the status of an          *)
(* acquisition: a client that is closed when the call begins only fails.   *)
MusolCodes == IF call_connected THEN {SUCCESS, ERR_TIMEOUT} ELSE {ERR_PLC_FAILURE}

SongStatus == IF call_connected THEN {SUCCESS, SONG_ERROR} ELSE {SONG_ERROR}

(* The tuple set_modulation returns: the positions reached and the code.   *)
set_modulation_return(alpha, beta, theta_opt, code) ==
    << alpha, beta, IF theta_opt = Nothing THEN 0 ELSE theta_opt[1], 0, code >>

(* ------------------------- entries of the trace ------------------------ *)
CallSetMode(mode) == [ev |-> "call", cmd |-> "set_mode", mode |-> mode]

CallSetModulation(cycle, stp, alpha, beta, theta_opt) ==
    [ev |-> "call", cmd |-> "set_modulation", cycle |-> cycle, step |-> stp,
     alpha |-> alpha, beta |-> beta, theta |-> theta_opt]

CallAcquire(cycle, stp, int_time, imagetype, alpha, beta, theta, comment) ==
    [ev |-> "call", cmd |-> "send_acquire_cmd", cycle |-> cycle, step |-> stp,
     exptime |-> int_time, imagetype |-> imagetype, alpha |-> alpha, beta |-> beta,
     theta |-> theta, comment |-> comment]

Return(cmd, code) == [ev |-> "ret", cmd |-> cmd, code |-> code]

AbortCheck(cycle, stp, flag) ==
    [ev |-> "check", cycle |-> cycle, step |-> stp, aborted |-> flag]

Progress(data) == [ev |-> "progress", data |-> data]

Status(kind, cycle, stp) == [ev |-> "status", kind |-> kind, cycle |-> cycle, step |-> stp]

Finished(ok) == [ev |-> "finished", ok |-> ok]

AbortRequest == [ev |-> "abort"]

Crash == [ev |-> "crash"]

(* --------------------------- the engine -------------------------------- *)
(* ProcessingWorker calls self.logger without testing it; MusolsongCLI     *)
(* goes through _log_info and its siblings, which test it.                 *)
LoggerRaises == engine = "GUI" /\ ~logger

(* variant: a step of the engine takes the request off the flag *)
flag_consumed_by_step(flag) == FALSE

(* The flag after a step of the engine: process_modulation_data and        *)
(* process_modulations only read it, through is_aborted().                 *)
flag_after_step(flag) == flag

EngineFrame ==
    /\ abort_flag' = flag_after_step(abort_flag)
    /\ UNCHANGED << doc, validator, v_return, v_calls, cli, prev, engine, logger,
                    current_seq_data, musol_connected, song_connected,
                    musol_attr, input_data, ui, runs >>

Goto(pc2, tr, q, res, cycle, theta, stp) ==
    /\ pc' = pc2
    /\ call_connected' = IF pc2 \in {"mode_wait", "plc_wait"} THEN musol_connected
                         ELSE IF pc2 = "song_wait" THEN song_connected
                         ELSE FALSE
    /\ trace' = tr
    /\ mainq' = q
    /\ result' = res
    /\ current_cycle' = cycle
    /\ current_theta' = theta
    /\ step' = stp

(* An AttributeError leaves the slot: the thread's run ends with no signal. *)
Raise(tr) == Goto("crashed", Append(tr, Crash), mainq, result, current_cycle,
                  current_theta, step)

(* return False / processing_finished.emit(False), and the True twin       *)
Finish(tr, ok, theta) ==
    Goto("done", Append(tr, Finished(ok)),
         IF engine = "GUI"
         THEN Append(mainq, [sig |-> "processing_finished", completed |-> ok])
         ELSE mainq,
         IF ok THEN "True" ELSE "False",
         current_cycle, theta, step)

(* variant: the flag is looked at once more before success is reported *)
Completed_unless_aborted(tr, theta) == Finish(Append(tr, Status("completed", current_cycle, step)), ~abort_flag, theta)

(* "Processing completed successfully" *)
Completed(tr, theta) == Finish(Append(tr, Status("completed", current_cycle, step)), TRUE, theta)

(* The head of one cycle in process_modulation_data, up to the first       *)
(* abort check of process_modulations.                                     *)
EnterCycle(tr, cycle, theta) ==
    IF input_data.op_mode # "OBSERVATION" /\ LoggerRaises
    THEN Raise(tr)
    ELSE Goto("step", tr, mainq, result, cycle, theta, 1)

(* variant: the angle wraps at a full turn *)
next_theta_wrapped(theta, offset) == (theta + offset) % 360

(* current_theta += offset_angle, at the foot of every Calibration cycle   *)
next_theta(theta, offset) == theta + offset

(* process_modulations returned retval: the rest of the loop body in       *)
(* process_modulation_data.                                                *)
AfterProcessModulations(tr, retval) ==
    IF stops_run(engine, retval)
    THEN Finish(IF engine = "CLI"
                THEN Append(tr, Status("failed", current_cycle, step))
                ELSE tr, FALSE, current_theta)
    ELSE IF input_data.op_mode = "OBSERVATION"
         THEN Completed(tr, current_theta)
         ELSE LET theta == next_theta(current_theta, input_data.offset_angle) IN
              IF current_cycle < input_data.number_of_cycles
              THEN EnterCycle(tr, current_cycle + 1, theta)
              ELSE Completed(tr, theta)

(* variant: the angle the previous run stopped at is kept *)
initial_theta_carried(theta) == theta

(* current_theta = 0.0 at the head of process_modulation_data: the angle   *)
(* is a local of the call, whatever an earlier call left.                  *)
initial_theta(theta) == 0

(* process_modulation_data up to the set_mode call *)
SetMode ==
    /\ pc = "set_mode"
    /\ Goto("mode_wait", Append(trace, CallSetMode(input_data.op_mode)), mainq, result,
            0, current_theta, 0)
    /\ EngineFrame

(* set_mode returns *)
SetModeReturn ==
    /\ pc = "mode_wait"
    /\ \E code \in MusolCodes :
         LET tr == Append(trace, Return("set_mode", code)) IN
         IF mode_rejected(code)
         THEN IF LoggerRaises
              THEN Raise(tr)
              ELSE Finish(Append(tr, Status("mode_failed", 0, 0)), FALSE, current_theta)
         ELSE EnterCycle(tr, 1, current_theta)
    /\ EngineFrame

(* One pass of the step loop from its head to the set_modulation call:     *)
(* the abort check, then the modulation's fields, then the call.           *)
BeginStep ==
    /\ pc = "step"
    /\ LET tr == Append(trace, AbortCheck(current_cycle, step, is_aborted))
           modulation == input_data.modulations[step]
           theta_arg == theta_argument(input_data.op_mode, current_theta)
       IN  IF is_aborted
           THEN LET ta == Append(tr, Status("aborted", current_cycle, step)) IN
                IF LoggerRaises
                THEN Raise(ta)
                ELSE AfterProcessModulations(ta, abort_retval(engine))
           ELSE IF LoggerRaises
           THEN Raise(tr)
           ELSE Goto("plc_wait",
                     Append(tr, CallSetModulation(current_cycle, step, modulation.alpha,
                                                  modulation.beta,
                                                  theta_deg_for_PLC(theta_arg))),
                     mainq, result, current_cycle, current_theta, step)
    /\ EngineFrame

(* set_modulation returns: stop on an error, else report the positions and *)
(* call send_acquire_cmd.                                                  *)
SetModulationReturn ==
    /\ pc = "plc_wait"
    /\ \E code \in MusolCodes :
         LET modulation == input_data.modulations[step]
             theta_arg == theta_argument(input_data.op_mode, current_theta)
             return_PLC_values ==
                 set_modulation_return(modulation.alpha, modulation.beta,
                                       theta_deg_for_PLC(theta_arg), code)
             tr == Append(trace, Return("set_modulation", code))
             status_updated_dict ==
                 prepare_updated_data_for_GUI(input_data.modulations_count,
                     input_data.number_of_cycles, current_cycle, step,
                     return_PLC_values[1], return_PLC_values[2], return_PLC_values[3],
                     return_PLC_values[4], modulation.SONG_int_time)
             acquire ==
                 CallAcquire(current_cycle, step, modulation.SONG_int_time,
                             image_type(theta_arg), modulation.alpha, modulation.beta,
                             theta_deg_for_SONG(theta_arg),
                             description_for_SONG(modulation.description))
         IN  IF positioner_failed(return_PLC_values)
             THEN AfterProcessModulations(
                      Append(tr, Status("plc_failed", current_cycle, step)), 1)
             ELSE IF engine = "GUI"
             THEN Goto("song_wait",
                       Append(Append(tr, Progress(status_updated_dict)), acquire),
                       Append(mainq, [sig |-> "progress_updated",
                                      data |-> status_updated_dict]),
                       result, current_cycle, current_theta, step)
             ELSE Goto("song_wait", Append(tr, acquire), mainq, result,
                       current_cycle, current_theta, step)
    /\ EngineFrame

(* send_acquire_cmd returns: stop on a non-zero status, else the next step *)
(* or, after the last one, return 0.                                       *)
AcquireReturn ==
    /\ pc = "song_wait"
    /\ \E status \in SongStatus :
         LET tr == Append(trace, Return("send_acquire_cmd", status)) IN
         IF status # 0
         THEN AfterProcessModulations(
                  Append(tr, Status("song_failed", current_cycle, step)), 1)
         ELSE IF step < input_data.modulations_count
         THEN Goto("step", tr, mainq, result, current_cycle, current_theta, step + 1)
         ELSE AfterProcessModulations(tr, 0)
    /\ EngineFrame

(* ---------------------------- the callers ------------------------------ *)
(* variant: one connected client is enough *)
either_connected(song, musol) == song \/ musol

(* The two is_connected() tests at the head of a run: both must pass. *)
both_connected(song, musol) == song /\ musol

RunFrame == UNCHANGED << doc, validator, v_return, v_calls, cli, engine, logger, current_seq_data, musol_connected, song_connected >>

(* How the run that the state holds ended, as the next run's history. *)
outcome_of_run ==
    IF pc = "done" /\ result = "False"
          /\ \E i \in 1..Len(trace) :
               /\ trace[i].ev = "status"
               /\ trace[i].kind \in {"mode_failed", "plc_failed", "song_failed"}
    THEN "failed"
    ELSE IF pc = "done" THEN "other" ELSE prev

(* MusolsongCLI.process_sequence_file: validate_project_yaml, the          *)
(* validate_only exit, the connection checks, prepare_data_for_processing  *)
(* and the head of process_modulation_data.                                *)
process_sequence_file ==
    /\ engine = "CLI"
    /\ pc \in {"idle", "done"}
    /\ cli.pc \in {"library", "called"}
    /\ cli.pc = "called" => runs = 0
    /\ runs < MaxRuns
    /\ runs' = runs + 1
    /\ prev' = outcome_of_run
    /\ IF ~cli.file_valid
       THEN /\ Goto("idle", << Status("invalid", 0, 0) >>, mainq, "False", 0, 0, 0)
            /\ UNCHANGED << input_data, musol_attr >>
       ELSE IF cli.validate_only
       THEN /\ Goto("idle", << Status("validated", 0, 0) >>, mainq, "True", 0, 0, 0)
            /\ UNCHANGED << input_data, musol_attr >>
       ELSE IF ~both_connected(song_connected, musol_connected)
       THEN /\ Goto("idle", << Status("not_connected", 0, 0) >>, mainq, "False", 0, 0, 0)
            /\ UNCHANGED << input_data, musol_attr >>
       ELSE /\ Goto("set_mode", IF abort_flag THEN << AbortRequest >> ELSE << >>,
                    mainq, "None", 0, initial_theta(current_theta), 0)
            /\ input_data' = prepare_data_for_processing(current_seq_data)
            /\ musol_attr' = TRUE
    /\ UNCHANGED << abort_flag, ui >>
    /\ RunFrame

(* variant: the START button stays enabled while the worker runs *)
start_widgets_button_left(w) ==
    [w EXCEPT !.abort_button = TRUE, !.progress_bar = 0, !.worker = TRUE,
              !.report = None]

(* The widgets and attributes start_processing sets once the checks passed *)
start_widgets(w) ==
    [w EXCEPT !.process_button = FALSE, !.abort_button = TRUE, !.progress_bar = 0,
              !.worker = TRUE, !.report = None]

(* MusolSongApp.start_processing, the slot of the START button: the        *)
(* connection checks, the widgets, a new ProcessingWorker on a new thread. *)
start_processing ==
    /\ engine = "GUI"
    /\ ui.process_button
    /\ ~ui.closed
    /\ pc # "crashed"
    /\ runs < MaxRuns
    /\ runs' = runs + 1
    /\ prev' = outcome_of_run
    /\ IF ~both_connected(song_connected, musol_connected)
       THEN /\ ui' = [ui EXCEPT !.report = "not_connected"]
            /\ UNCHANGED << pc, call_connected, trace, mainq, result, current_cycle,
                            current_theta, step, input_data, abort_flag >>
       ELSE /\ Goto("set_mode", << >>, mainq, "None", 0, initial_theta(current_theta), 0)
            /\ input_data' = prepare_data_for_processing(current_seq_data)
            /\ abort_flag' = FALSE
            /\ ui' = start_widgets(ui)
    /\ UNCHANGED musol_attr
    /\ RunFrame

(* The trace notes the request that sets the flag (and, at the start of a  *)
(* run of the foreground engine, a flag that is set already).              *)
NoteAbort == IF abort_flag THEN trace ELSE Append(trace, AbortRequest)

(* MusolsongCLI.abort_processing: the flag, then both connections closed;  *)
(* before the first run self.musol does not exist and the call raises      *)
(* after setting the flag.                                                 *)
abort_processing ==
    /\ engine = "CLI"
    /\ abort_flag' = TRUE
    /\ trace' = NoteAbort
    /\ IF musol_attr
       THEN musol_connected' = FALSE /\ song_connected' = FALSE
       ELSE UNCHANGED << musol_connected, song_connected >>
    /\ cli' = [cli EXCEPT !.abort_raised = @ \/ ~musol_attr]
    /\ UNCHANGED << doc, validator, v_return, v_calls, prev, engine, logger,
                    current_seq_data, musol_attr, call_connected, pc,
                    input_data, current_cycle, current_theta, step, result, mainq, ui,
                    runs >>

(* MusolSongApp.abort_processing, the slot of the ABORT button *)
abort_clicked ==
    /\ engine = "GUI"
    /\ ui.abort_button
    /\ ~ui.closed
    /\ pc # "crashed"
    /\ ui.worker
    /\ abort_flag' = TRUE
    /\ trace' = NoteAbort
    /\ UNCHANGED << doc, validator, v_return, v_calls, cli, prev, engine, logger,
                    current_seq_data, musol_connected, song_connected,
                    musol_attr, call_connected, pc, input_data, current_cycle,
                    current_theta, step, result, mainq, ui, runs >>

MainFrame ==
    UNCHANGED << doc, validator, v_return, v_calls, cli, prev, engine, logger, current_seq_data, musol_connected, song_connected,
                 musol_attr, call_connected, abort_flag, pc, input_data, current_cycle,
                 current_theta, step, trace, result, runs >>

(* MusolSongApp.on_update_status_labels, the slot of progress_updated *)
on_update_status_labels ==
    /\ engine = "GUI"
    /\ ~ui.closed
    /\ pc # "crashed"
    /\ mainq # << >>
    /\ Head(mainq).sig = "progress_updated"
    /\ ui' = [ui EXCEPT !.progress_bar = Head(mainq).data.percetage_done]
    /\ mainq' = Tail(mainq)
    /\ MainFrame

(* variant: the bar is left where the last progress event put it *)
finished_progress_kept(completed, bar) == IF completed THEN bar ELSE 0

(* What on_processing_finished sets the progress bar to. *)
finished_progress(completed, bar) == IF completed THEN 100 ELSE 0

(* What on_processing_finished tells the user. *)
finished_report(completed, worker_is_aborted) ==
    IF completed THEN "completed"
    ELSE IF worker_is_aborted THEN "aborted" ELSE "error"

(* MusolSongApp.on_processing_finished, the slot of processing_finished *)
on_processing_finished ==
    /\ engine = "GUI"
    /\ ~ui.closed
    /\ pc # "crashed"
    /\ mainq # << >>
    /\ Head(mainq).sig = "processing_finished"
    /\ LET completed == Head(mainq).completed IN
       ui' = [ui EXCEPT !.process_button = TRUE, !.abort_button = FALSE,
                        !.progress_bar = finished_progress(completed, ui.progress_bar),
                        !.report = finished_report(completed, is_aborted),
                        !.worker = FALSE]
    /\ mainq' = Tail(mainq)
    /\ MainFrame

(* MusolSongApp.closeEvent: a thread that is still running has its worker  *)
(* told to abort and is waited for; then the window is gone.  A thread     *)
(* whose worker has returned may or may not have left its event loop yet.  *)
closeEvent ==
    /\ engine = "GUI"
    /\ ~ui.closed
    /\ pc # "crashed"
    /\ \E isRunning \in IF ~ui.worker THEN {FALSE}
                         ELSE IF pc = "done" THEN BOOLEAN ELSE {TRUE} :
         /\ abort_flag' = (abort_flag \/ isRunning)
         /\ trace' = IF isRunning THEN NoteAbort ELSE trace
    /\ ui' = [ui EXCEPT !.closed = TRUE]
    /\ UNCHANGED << doc, validator, v_return, v_calls, cli, prev, engine, logger,
                    current_seq_data, musol_connected, song_connected,
                    musol_attr, call_connected, pc, input_data, current_cycle,
                    current_theta, step, result, mainq, runs >>

Next ==
    \/ process_sequence_file
    \/ start_processing
    \/ SetMode
    \/ SetModeReturn
    \/ BeginStep
    \/ SetModulationReturn
    \/ AcquireReturn
    \/ abort_processing
    \/ abort_clicked
    \/ on_update_status_labels
    \/ on_processing_finished
    \/ closeEvent

Spec == Init /\ [][Next]_vars

(* ---------------------- the command line program ----------------------- *)
(* run_cli_mode is entered with a logger or with None (system logs         *)
(* disabled), with or without --validate-only, on a sequence file that     *)
(* validates or not, and finds each device reachable or not.               *)
InitCLI ==
    /\ engine = "CLI"
    /\ EngineInit
    /\ cli \in [pc : {"start"}, exit_code : {"None"}, validate_only : BOOLEAN,
                file_valid : BOOLEAN, abort_raised : {FALSE}]
    /\ doc = YNone
    /\ validator = FreshValidator
    /\ v_return = "None"
    /\ v_calls = 0

CLIFrame ==
    UNCHANGED << doc, validator, v_return, v_calls, prev, engine, logger,
                 current_seq_data, musol_attr, call_connected, input_data,
                 current_cycle, current_theta, step, result, mainq, ui, runs >>

(* run_cli_mode from its head to the construction of MusolsongCLI: the     *)
(* guarded log lines, the two log lines that are not guarded, and the      *)
(* return when neither device is available.                                *)
run_cli_mode ==
    /\ cli.pc = "start"
    /\ cli' = IF ~logger
              THEN [cli EXCEPT !.pc = "exited", !.exit_code = "AttributeError"]
              ELSE IF ~cli.validate_only /\ ~musol_connected /\ ~song_connected
              THEN [cli EXCEPT !.pc = "exited", !.exit_code = "1"]
              ELSE [cli EXCEPT !.pc = "called"]
    /\ UNCHANGED << abort_flag, pc, trace, musol_connected, song_connected >>
    /\ CLIFrame

(* process_sequence_file has returned success: return 0 if it is true,     *)
(* else return 1.                                                          *)
run_cli_mode_return ==
    /\ cli.pc = "called"
    /\ runs = 1
    /\ pc \in {"idle", "done"}
    /\ cli' = [cli EXCEPT !.pc = "exited",
                          !.exit_code = IF result = "True" THEN "0" ELSE "1"]
    /\ UNCHANGED << abort_flag, pc, trace, musol_connected, song_connected >>
    /\ CLIFrame

(* Ctrl-C while process_sequence_file is validating or running: the call   *)
(* is unwound, the handler calls abort_processing() and returns 1; when    *)
(* abort_processing() raises, the handler is left by that exception.       *)
KeyboardInterrupt ==
    /\ cli.pc = "called"
    /\ \/ pc = "idle" /\ runs = 0
       \/ pc \in {"set_mode", "mode_wait", "step", "plc_wait", "song_wait"}
    /\ pc' = "interrupted"
    /\ abort_flag' = TRUE
    /\ trace' = NoteAbort
    /\ IF musol_attr
       THEN /\ musol_connected' = FALSE /\ song_connected' = FALSE
            /\ cli' = [cli EXCEPT !.pc = "exited", !.exit_code = "1"]
       ELSE /\ UNCHANGED << musol_connected, song_connected >>
            /\ cli' = [cli EXCEPT !.pc = "exited", !.exit_code = "AttributeError",
                                  !.abort_raised = TRUE]
    /\ CLIFrame

NextCLI ==
    \/ run_cli_mode
    \/ process_sequence_file
    \/ SetMode
    \/ SetModeReturn
    \/ BeginStep
    \/ SetModulationReturn
    \/ AcquireReturn
    \/ run_cli_mode_return
    \/ KeyboardInterrupt

SpecCLI == InitCLI /\ [][NextCLI]_vars

(* ----------------------- the validator on its own ---------------------- *)
ValidatorFrame ==
    UNCHANGED << cli, prev, engine, logger, current_seq_data, musol_connected, song_connected,
                 musol_attr, call_connected, abort_flag, pc, input_data, current_cycle,
                 current_theta, step, trace, result, mainq, ui, runs >>

(* A validator built on a source that holds any of the documents; the      *)
(* engine is at rest.                                                      *)
InitValidator ==
    /\ engine = "CLI"
    /\ logger = TRUE
    /\ musol_connected = TRUE
    /\ song_connected = TRUE
    /\ current_seq_data = [mode |-> "observation", modulations |-> SubSeq(ModPool, 1, 1),
                           retarding_plate_offsets |-> Nothing]
    /\ EngineInit
    /\ cli = Library
    /\ doc \in Docs
    /\ validator = FreshValidator
    /\ v_return = "None"
    /\ v_calls = 0

(* YAMLSequenceValidator.validate(): the call made by __init__ and every   *)
(* later call on the same source.  A call that raised in __init__ leaves   *)
(* no object to call again.                                                *)
validate ==
    /\ v_calls < MaxValidations
    /\ v_return # "KeyError"
    /\ LET r == validate_document(validator, doc) IN
         /\ validator' = r.state
         /\ v_return' = r.ret
    /\ v_calls' = v_calls + 1
    /\ UNCHANGED doc
    /\ ValidatorFrame

(* Documents a validator is pointed at by load_from_file. *)
ReloadDocs ==
    { YDict([modes |-> YDict([observation |-> YDict([modulations |-> YList(OneEntry)])])]),
      YDict([modes |-> YDict([calibration |->
                YDict([modulations |-> YList(OneEntry),
                       retarding_plate_offsets |-> YInt(7)])])]),
      YList(<< YStr("modes") >>) }

(* YAMLSequenceValidator.load_from_file(path): the new source, validated *)
load_from_file ==
    /\ v_calls >= 1
    /\ v_calls < MaxValidations
    /\ v_return # "KeyError"
    /\ \E d \in ReloadDocs :
         /\ doc' = d
         /\ LET r == validate_document(validator, d) IN
              /\ validator' = r.state
              /\ v_return' = r.ret
    /\ v_calls' = v_calls + 1
    /\ ValidatorFrame

NextValidator ==
    \/ validate
    \/ load_from_file

SpecValidator == InitValidator /\ [][NextValidator]_vars

TypeOK ==
    /\ pc \in {"idle", "set_mode", "mode_wait", "step", "plc_wait", "song_wait", "done",
               "crashed", "interrupted"}
    /\ prev \in {"none", "failed", "other"}
    /\ cli.pc \in {"library", "start", "called", "exited"}
    /\ cli.exit_code \in {"None", "0", "1", "AttributeError"}
    /\ result \in {"None", "True", "False"}
    /\ abort_flag \in BOOLEAN
    /\ runs \in 0..MaxRuns

(* ======================= properties of a run ========================== *)
Idx == 1..Len(trace)

IsCall(e, cmd) == e.ev = "call" /\ e.cmd = cmd

IsStepCall(e) == e.ev = "call" /\ e.cmd \in {"set_modulation", "send_acquire_cmd"}

IsReturn(e, cmd) == e.ev = "ret" /\ e.cmd = cmd

IsStatus(e, kind) == e.ev = "status" /\ e.kind = kind

DeviceCalls == SelectSeq(trace, LAMBDA e : e.ev = "call")

RunEnded == pc \in {"done", "crashed"}

NoAbortRequested == ~abort_flag /\ \A i \in Idx : trace[i].ev # "abort"

AllCallsSucceeded == \A i \in Idx : trace[i].ev = "ret" => trace[i].code = 0

NoStepCallAfter(i) == \A j \in Idx : j > i => ~IsStepCall(trace[j])

PlanMods == current_seq_data.modulations

PlanOffset == current_seq_data.retarding_plate_offsets[1]

(* The device traffic of a complete Observation run of the plan. *)
ObservationTraffic ==
    << [ev |-> "call", cmd |-> "set_mode", mode |-> "OBSERVATION"] >> \o
    [ j \in 1..(2 * Len(PlanMods)) |->
        LET i == (j + 1) \div 2
            m == PlanMods[i]
        IN  IF j % 2 = 1
            THEN [ev |-> "call", cmd |-> "set_modulation", cycle |-> 1, step |-> i,
                  alpha |-> m.alpha, beta |-> m.beta, theta |-> Nothing]
            ELSE [ev |-> "call", cmd |-> "send_acquire_cmd", cycle |-> 1, step |-> i,
                  exptime |-> m.SONG_int_time, imagetype |-> "SUN", alpha |-> m.alpha,
                  beta |-> m.beta, theta |-> 999,
                  comment |-> IF m.description \in {None, ""} THEN " "
                              ELSE m.description] ]

(* C1: an Observation run with no abort request and only successful device *)
(* calls ends having issued set_mode once, then one (set_modulation,       *)
(* send_acquire_cmd) pair per modulation in list order and nothing else,   *)
(* and reports success.                                                    *)
C1_ObservationRunCompletes ==
    (RunEnded /\ current_seq_data.mode = "observation" /\ NoAbortRequested
        /\ AllCallsSucceeded)
    => /\ DeviceCalls = ObservationTraffic
       /\ result = "True"
       /\ \E i \in Idx : IsStatus(trace[i], "completed")

(* C1, where the engine has a logger or tests for it: the same statement   *)
(* for the foreground engine and for the worker with system logs enabled.  *)
C1_ObservationRunCompletesLogged ==
    ~LoggerRaises => C1_ObservationRunCompletes

C1_Witness ==
    /\ pc = "done" /\ current_seq_data.mode = "observation" /\ NoAbortRequested
    /\ AllCallsSucceeded /\ result = "True" /\ Len(PlanMods) = MaxMods

CallBefore(i) ==
    LET js == { j \in 1..(i - 1) : trace[j].ev = "call" } IN
    trace[CHOOSE j \in js : \A l \in js : l <= j]

(* C3: after send_acquire_cmd returns a non-zero status on step k of cycle *)
(* c no set_modulation and no send_acquire_cmd follows, and the run has    *)
(* ended with the verdict False and a message naming step k and cycle c.   *)
C3_DetectorFailureStops ==
    \A i \in Idx :
      (IsReturn(trace[i], "send_acquire_cmd") /\ trace[i].code # 0) =>
        /\ NoStepCallAfter(i)
        /\ pc = "done" /\ result = "False"
        /\ \E j \in Idx : /\ j > i
                          /\ trace[j] = [ev |-> "status", kind |-> "song_failed",
                                         cycle |-> CallBefore(i).cycle,
                                         step |-> CallBefore(i).step]
        /\ \E j \in Idx : j > i /\ trace[j] = [ev |-> "finished", ok |-> FALSE]

C3_Witness ==
    \E i \in Idx :
      /\ IsReturn(trace[i], "send_acquire_cmd") /\ trace[i].code # 0
      /\ CallBefore(i).cycle = 2 /\ CallBefore(i).step = 1
      /\ Len(PlanMods) = 2 /\ input_data.number_of_cycles > 2

(* C4: after set_modulation returns a non-zero error code on step k of     *)
(* cycle c the detector is not commanded for that step, no set_modulation  *)
(* and no send_acquire_cmd follows, and the run has ended with the verdict *)
(* False and a message naming step k and cycle c.                          *)
C4_PositionerFailureStops ==
    \A i \in Idx :
      (IsReturn(trace[i], "set_modulation") /\ trace[i].code # 0) =>
        /\ NoStepCallAfter(i)
        /\ ~\E j \in Idx : /\ IsCall(trace[j], "send_acquire_cmd")
                           /\ trace[j].cycle = CallBefore(i).cycle
                           /\ trace[j].step = CallBefore(i).step
        /\ pc = "done" /\ result = "False"
        /\ \E j \in Idx : /\ j > i
                          /\ trace[j] = [ev |-> "status", kind |-> "plc_failed",
                                         cycle |-> CallBefore(i).cycle,
                                         step |-> CallBefore(i).step]
        /\ \E j \in Idx : j > i /\ trace[j] = [ev |-> "finished", ok |-> FALSE]

C4_Witness ==
    \E i \in Idx :
      /\ IsReturn(trace[i], "set_modulation") /\ trace[i].code # 0
      /\ CallBefore(i).cycle = 2 /\ CallBefore(i).step = 1
      /\ Len(PlanMods) = 2 /\ input_data.number_of_cycles > 2

(* C5: an abort check finds the flag set exactly when the flag was set     *)
(* before it; the check of step k of cycle c that finds it set is followed *)
(* by the message "aborted at step k of cycle c" and by no set_modulation  *)
(* and no send_acquire_cmd, step k itself is never commanded, and the run  *)
(* has ended without success.                                              *)
C5_AbortBeforeStepStops ==
    \A i \in Idx :
      trace[i].ev = "check" =>
        /\ trace[i].aborted <=> \E a \in 1..(i - 1) : trace[a].ev = "abort"
        /\ trace[i].aborted =>
             /\ NoStepCallAfter(i)
             /\ ~\E j \in Idx : /\ IsStepCall(trace[j])
                                /\ trace[j].cycle = trace[i].cycle
                                /\ trace[j].step = trace[i].step
             /\ i < Len(trace)
             /\ trace[i + 1] = [ev |-> "status", kind |-> "aborted",
                                cycle |-> trace[i].cycle, step |-> trace[i].step]
             /\ RunEnded
             /\ pc = "done" => result = "False"
             /\ result # "True"

C5_Witness ==
    \E i \in Idx :
      /\ trace[i].ev = "check" /\ trace[i].aborted
      /\ trace[i].cycle = 2 /\ trace[i].step = 2
      /\ pc = "done" /\ result = "False"

(* C6: after set_mode returns a non-zero error code the run has ended      *)
(* without success and without entering a cycle: the trace holds no        *)
(* set_modulation and no send_acquire_cmd call.                            *)
C6_ModeRejectedStops ==
    \A i \in Idx :
      (IsReturn(trace[i], "set_mode") /\ trace[i].code # 0) =>
        /\ \A j \in Idx : ~IsStepCall(trace[j])
        /\ current_cycle = 0
        /\ RunEnded
        /\ result # "True"
        /\ pc = "done" => /\ result = "False"
                          /\ \E j \in Idx : j > i /\ IsStatus(trace[j], "mode_failed")

C6_Witness ==
    /\ pc = "done" /\ result = "False"
    /\ \E i \in Idx : IsReturn(trace[i], "set_mode") /\ trace[i].code # 0

StoppedByAbort == \E i \in Idx : IsStatus(trace[i], "aborted")

StoppedByDevice ==
    \E i \in Idx : trace[i].ev = "status"
                   /\ trace[i].kind \in {"mode_failed", "plc_failed", "song_failed"}

(* C7: the window reports "ABORT requested" only for a run that stopped at *)
(* an abort check and "terminated due to error" only for a run that a      *)
(* device command stopped.                                                 *)
C7_AbortDistinctFromFailure ==
    /\ ui.report = "aborted" => StoppedByAbort /\ ~StoppedByDevice
    /\ ui.report = "error" => StoppedByDevice /\ ~StoppedByAbort

SuccStep(cycle, stp) ==
    IF stp < Len(PlanMods) THEN << cycle, stp + 1 >> ELSE << cycle + 1, 1 >>

(* C8: the flag is read once per step, directly before that step's         *)
(* set_modulation call and nowhere else.  A request that arrives while a   *)
(* call of step k is in flight does not keep the detector call of step k   *)
(* from being issued once the positioner has succeeded, and an abort is    *)
(* then recognised only at the check of the step after k, which finds the  *)
(* flag set.                                                               *)
C8_CooperativeCancellation ==
    /\ \A i \in Idx :
         IsCall(trace[i], "set_modulation") =>
           /\ i > 1
           /\ trace[i - 1] = [ev |-> "check", cycle |-> trace[i].cycle,
                              step |-> trace[i].step, aborted |-> FALSE]
    /\ \A i, j \in Idx :
         (trace[i].ev = "check" /\ trace[j].ev = "check"
            /\ trace[i].cycle = trace[j].cycle /\ trace[i].step = trace[j].step)
         => i = j
    /\ \A i \in Idx :
         (trace[i].ev = "check" /\ i < Len(trace)) =>
           \/ IsCall(trace[i + 1], "set_modulation")
           \/ IsStatus(trace[i + 1], "aborted")
           \/ trace[i + 1].ev \in {"crash", "abort"}
    /\ \A a \in Idx :
         (trace[a].ev = "abort" /\ a > 1 /\ IsStepCall(trace[a - 1])) =>
           LET c == trace[a - 1].cycle
               k == trace[a - 1].step
           IN
           /\ (IsCall(trace[a - 1], "set_modulation") /\ a < Len(trace)
                 /\ trace[a + 1] = [ev |-> "ret", cmd |-> "set_modulation", code |-> 0])
              => \E j \in Idx : /\ j > a
                                /\ IsCall(trace[j], "send_acquire_cmd")
                                /\ trace[j].cycle = c /\ trace[j].step = k
           /\ \A j \in Idx :
                IsStatus(trace[j], "aborted") =>
                  /\ j > a + 1
                  /\ trace[j - 1].ev = "check" /\ trace[j - 1].aborted
                  /\ << trace[j].cycle, trace[j].step >> = SuccStep(c, k)
           /\ \A j \in Idx :
                (j > a /\ trace[j].ev = "check") =>
                  /\ trace[j].aborted
                  /\ << trace[j].cycle, trace[j].step >> = SuccStep(c, k)

C8_Witness ==
    \E a \in Idx :
      /\ trace[a].ev = "abort" /\ a > 1
      /\ IsCall(trace[a - 1], "set_modulation")
      /\ trace[a - 1].cycle = 1 /\ trace[a - 1].step = Len(PlanMods)
      /\ \E j \in Idx : /\ j > a /\ IsCall(trace[j], "send_acquire_cmd")
                        /\ trace[j].cycle = 1 /\ trace[j].step = Len(PlanMods)
      /\ \E j \in Idx : j > a /\ trace[j] = [ev |-> "status", kind |-> "aborted",
                                             cycle |-> 2, step |-> 1]

ProgressIdx == { i \in Idx : trace[i].ev = "progress" }

LastProgress == trace[CHOOSE i \in ProgressIdx : \A j \in ProgressIdx : j <= i]

TotalSteps == input_data.modulations_count * input_data.number_of_cycles

C12_ProgressInStepOrder ==
    \A i, j \in ProgressIdx :
      i < j =>
        LET a == trace[i].data
            b == trace[j].data
        IN  \/ a.current_cycle < b.current_cycle
            \/ a.current_cycle = b.current_cycle /\ a.current_step < b.current_step

C12_Witness ==
    /\ Cardinality(ProgressIdx) = 2 * MaxMods
    /\ Len(PlanMods) = MaxMods
    /\ LastProgress.data.current_cycle = 2 /\ LastProgress.data.current_step = MaxMods

(* C13: in Observation mode every set_modulation call carries no theta     *)
(* (None, not 0) and every send_acquire_cmd call carries theta 999 and the *)
(* image type "SUN"; in Calibration mode every set_modulation call carries *)
(* a number, the send_acquire_cmd call of the same step carries that same  *)
(* number, and the image type is "CALIB".                                  *)
C13_ThetaAndImageTypeByMode ==
    \A i \in Idx :
      /\ IsCall(trace[i], "set_modulation") =>
           IF current_seq_data.mode = "observation"
           THEN trace[i].theta = Nothing /\ trace[i].theta # << 0 >>
           ELSE Len(trace[i].theta) = 1 /\ trace[i].theta[1] \in 0..359
      /\ IsCall(trace[i], "send_acquire_cmd") =>
           IF current_seq_data.mode = "observation"
           THEN trace[i].theta = NO_THETA /\ trace[i].imagetype = "SUN"
           ELSE /\ trace[i].imagetype = "CALIB"
                /\ CallBefore(i).cmd = "set_modulation"
                /\ CallBefore(i).cycle = trace[i].cycle
                /\ CallBefore(i).step = trace[i].step
                /\ CallBefore(i).theta = << trace[i].theta >>

C13_WitnessObservation ==
    /\ current_seq_data.mode = "observation" /\ pc = "done" /\ result = "True"
    /\ \E i \in Idx : IsCall(trace[i], "send_acquire_cmd") /\ trace[i].step = MaxMods

C13_Witness ==
    /\ current_seq_data.mode = "calibration" /\ pc = "done" /\ result = "True"
    /\ \E i \in Idx : /\ IsCall(trace[i], "send_acquire_cmd")
                        /\ trace[i].theta = 180 /\ trace[i].imagetype = "CALIB"

(* C15: a start request made while either client reports is_connected() =  *)
(* False starts nothing: the engine stays out of the run, no set_mode,     *)
(* set_modulation or send_acquire_cmd is issued, the input of the run is   *)
(* not prepared, and the request reports failure (the foreground engine    *)
(* returns False, the window shows the "not connected" error and creates   *)
(* no worker).                                                             *)
C15_NotConnectedNeverStarts ==
    [][ (runs' = runs + 1 /\ (~musol_connected \/ ~song_connected)) =>
          /\ pc \in {"idle", "done"}
          /\ pc' \in {"idle", "done"}
          /\ input_data' = input_data
          /\ \A i \in 1..Len(trace') :
               trace'[i].ev = "call" => (i <= Len(trace) /\ trace[i] = trace'[i])
          /\ IF engine = "CLI"
             THEN /\ result' = "False"
                  /\ trace' = << [ev |-> "status", kind |-> "not_connected",
                                   cycle |-> 0, step |-> 0] >>
             ELSE /\ ui'.report = "not_connected"
                  /\ ~ui'.worker /\ ui'.process_button /\ ~ui'.abort_button
                  /\ trace' = trace /\ mainq' = mainq
      ]_vars

C15_WitnessCLI ==
    /\ engine = "CLI" /\ runs = 1 /\ pc = "idle" /\ result = "False"
    /\ musol_connected /\ ~song_connected
    /\ trace = << [ev |-> "status", kind |-> "not_connected", cycle |-> 0, step |-> 0] >>

C15_Witness ==
    /\ engine = "GUI" /\ runs = 1 /\ pc = "idle" /\ ui.report = "not_connected"
    /\ ~musol_connected /\ song_connected /\ trace = << >> /\ ~ui.worker

FinishedIdx == { i \in Idx : trace[i].ev = "finished" }

(* Step k of cycle c completed: its send_acquire_cmd call returned 0. *)
StepCompleted(c, k) ==
    \E i \in Idx : /\ IsCall(trace[i], "send_acquire_cmd")
                    /\ trace[i].cycle = c /\ trace[i].step = k
                    /\ i < Len(trace)
                    /\ \E j \in (i + 1)..Len(trace) :
                         /\ trace[j] = [ev |-> "ret", cmd |-> "send_acquire_cmd", code |-> 0]
                         /\ \A l \in (i + 1)..(j - 1) : trace[l].ev # "call"

EveryStepCompleted ==
    \A c \in 1..input_data.number_of_cycles, k \in 1..input_data.modulations_count :
      StepCompleted(c, k)

(* C19: a run that started and has ended has reported its outcome exactly  *)
(* once: one processing_finished signal (one returned boolean in the       *)
(* foreground engine), which nothing the engine emits follows, and which   *)
(* is True exactly when every step of every cycle completed.               *)
C19_OutcomeReportedExactlyOnce ==
    /\ Cardinality(FinishedIdx) <= 1
    /\ \A i \in FinishedIdx :
         /\ \A j \in Idx : j > i => trace[j].ev = "abort"
         /\ trace[i].ok <=> EveryStepCompleted
         /\ result = (IF trace[i].ok THEN "True" ELSE "False")
         /\ engine = "GUI" =>
              (mainq # << >> =>
                 mainq[Len(mainq)] = [sig |-> "processing_finished", completed |-> trace[i].ok])
    /\ RunEnded => Cardinality(FinishedIdx) = 1

(* C19 where the engine has a logger or tests for it. *)
C19_OutcomeReportedExactlyOnceLogged ==
    ~LoggerRaises => C19_OutcomeReportedExactlyOnce

C19_Witness ==
    /\ engine = "GUI" /\ logger /\ pc = "done" /\ result = "True"
    /\ Cardinality(FinishedIdx) = 1 /\ input_data.number_of_cycles = 2
    /\ Len(PlanMods) = 2

WorkerActive == pc \in {"set_mode", "mode_wait", "step", "plc_wait", "song_wait"}

(* C20: the window creates and starts a worker only when no worker exists, *)
(* the engine is at rest and every signal of the previous worker, its      *)
(* processing_finished included, has been handled; from the start until    *)
(* on_processing_finished has run the START button is disabled, and a      *)
(* closed window starts nothing.                                           *)
C20_OneRunAtATime ==
    /\ [](engine = "GUI" =>
            /\ (WorkerActive \/ mainq # << >>) => (ui.worker /\ ~ui.process_button)
            /\ ui.worker => ~ui.process_button)
    /\ [][ (engine = "GUI" /\ runs' = runs + 1 /\ pc' = "set_mode") =>
             /\ ~WorkerActive
             /\ ~ui.worker
             /\ mainq = << >>
             /\ ~ui.closed
             /\ (runs > 0 /\ pc = "done") => ui.report \in {"completed", "aborted", "error"}
       ]_vars

C20_Witness ==
    /\ engine = "GUI" /\ runs = 2 /\ pc = "mode_wait" /\ ui.worker
    /\ ~ui.process_button /\ abort_flag

(* =================== properties of the validator ====================== *)
Validated == v_calls >= 1

HasModes == isinstance_dict(doc) /\ has_key(doc, "modes")

PresentModes ==
    { mode \in {"observation", "calibration"} : has_key(doc.items.modes, mode) }

OneMode == HasModes /\ isinstance_dict(doc.items.modes) /\ Cardinality(PresentModes) = 1

DocMode == CHOOSE mode \in PresentModes : TRUE

DocModeData == doc.items.modes.items[DocMode]

(* The document names one mode that holds a non-empty modulation list. *)
HasModulationList ==
    /\ OneMode
    /\ isinstance_dict(DocModeData)
    /\ has_key(DocModeData, "modulations")
    /\ DocModeData.items.modulations.type = "list"
    /\ Len(DocModeData.items.modulations.elems) >= 1

DocEntries == DocModeData.items.modulations.elems

IsNumber(x) == x.type \in {"int", "float"}

(* The rules of a modulation entry as the sequence format states them. *)
EntryObeysRules(e) ==
    /\ e.type = "dict"
    /\ {"alpha", "beta", "SONG_int_time"} \subseteq DOMAIN e.items
    /\ IsNumber(e.items.alpha) /\ e.items.alpha.halves \in -360..360
    /\ IsNumber(e.items.beta) /\ e.items.beta.halves \in -360..360
    /\ IsNumber(e.items.SONG_int_time) /\ e.items.SONG_int_time.halves \in 1..600
    /\ "description" \in DOMAIN e.items => e.items.description.type \in {"str", "NoneType"}

(* C14: a plan with an entry that breaks a rule is rejected, validate()    *)
(* returns False; and an accepted plan keeps every entry, so that the k-th *)
(* validated modulation is the k-th entry of the document.                 *)
C14_InvalidEntryRejected ==
    (Validated /\ HasModulationList) =>
      /\ (\E k \in 1..Len(DocEntries) : ~EntryObeysRules(DocEntries[k]))
           => v_return = "False"
      /\ v_return = "True" =>
           /\ Len(validator.modulations) = Len(DocEntries)
           /\ \A k \in 1..Len(DocEntries) :
                /\ validator.modulations[k].alpha = DocEntries[k].items.alpha.halves
                /\ validator.modulations[k].beta = DocEntries[k].items.beta.halves
                /\ validator.modulations[k].SONG_int_time
                     = DocEntries[k].items.SONG_int_time.halves

(* C14 as the code has it: validate() returns True as soon as one entry    *)
(* obeys the rules, and the validated list is the entries that obey them,  *)
(* in document order, the others dropped.                                  *)
C14_InvalidEntriesDropped ==
    (Validated /\ HasModulationList /\ DocMode = "observation") =>
      LET kept == SelectSeq(DocEntries, EntryObeysRules) IN
      /\ v_return = "True" <=> kept # << >>
      /\ v_return = "True" =>
           /\ Len(validator.modulations) = Len(kept)
           /\ \A k \in 1..Len(kept) :
                validator.modulations[k].alpha = kept[k].items.alpha.halves
           /\ Len(validator.errors) >= Len(DocEntries) - Len(kept)

HasOffsets ==
    /\ HasModulationList /\ DocMode = "calibration"
    /\ has_key(DocModeData, "retarding_plate_offsets")
    /\ \E k \in 1..Len(DocEntries) : EntryObeysRules(DocEntries[k])

DocOffsets == DocModeData.items.retarding_plate_offsets

(* A whole number of degrees in [1, 360] that divides 360. *)
IsIntegerDivisorOf360(x) ==
    /\ IsNumber(x)
    /\ x.halves % 2 = 0
    /\ (x.halves \div 2) \in 1..360
    /\ 360 % (x.halves \div 2) = 0

(* C16: a Calibration plan is accepted exactly when its                    *)
(* retarding_plate_offsets is an integer in [1, 360] that divides 360, and *)
(* then get_number_of_cycles() x get_retarding_plate_offsets() = 360.      *)
C16_OffsetsIntegerDivisor ==
    (Validated /\ HasOffsets) =>
      /\ v_return = "True" <=> IsIntegerDivisorOf360(DocOffsets)
      /\ v_return = "True" =>
           get_number_of_cycles(validator.retarding_plate_offsets)[1]
             * validator.retarding_plate_offsets[1] = 360

(* C16 for the documents whose offset is a whole number. *)
C16_WholeOffsetsIntegerDivisor ==
    (Validated /\ HasOffsets /\ (IsNumber(DocOffsets) => DocOffsets.halves % 2 = 0))
    => C16_OffsetsIntegerDivisor

(* C17: validate() called again on an unchanged source whose previous      *)
(* validate() returned True returns True, with the same mode, modulation   *)
(* list and offset, and an empty error list.                               *)
C17_RevalidationIdempotent ==
    [][ (v_calls' = v_calls + 1 /\ doc' = doc /\ v_return = "True") =>
          /\ v_return' = "True"
          /\ validator'.mode_type = validator.mode_type
          /\ validator'.modulations = validator.modulations
          /\ validator'.retarding_plate_offsets = validator.retarding_plate_offsets
          /\ validator'.errors = << >>
      ]_vars

(* C17 without the empty error list: a second validate() on an unchanged   *)
(* source leaves every field of the validator, the error list included,    *)
(* and the returned value as the first call left them; the error list is   *)
(* empty when every entry of the plan obeys the rules.                     *)
C17_RevalidationSameFields ==
    [][ (v_calls' = v_calls + 1 /\ doc' = doc /\ v_calls >= 1) =>
          /\ v_return' = v_return
          /\ validator' = validator
          /\ (v_return = "True"
                /\ \A k \in 1..Len(DocEntries) : EntryObeysRules(DocEntries[k]))
             => validator'.errors = << >>
      ]_vars

(* The documents C18 is about. *)
InvalidDocument ==
    \/ ~isinstance_dict(doc)
    \/ ~has_key(doc, "modes")
    \/ ~isinstance_dict(doc.items.modes)
    \/ Cardinality(PresentModes) # 1

(* C18: validate() on a document whose root is not a dictionary, whose     *)
(* 'modes' entry is absent or not a dictionary, or which names no mode or  *)
(* both, returns False with at least one message and does not raise.       *)
C18_InvalidDocumentReported ==
    (Validated /\ InvalidDocument) =>
      /\ v_return = "False"
      /\ validator.errors # << >>
      /\ ~validator.is_valid_flag

(* C18 for the documents that have a 'modes' entry or no dictionary root. *)
C18_InvalidDocumentReportedWithModes ==
    (isinstance_dict(doc) => has_key(doc, "modes")) => C18_InvalidDocumentReported

(* The first events of the run the state holds. *)
FirstIdx(P(_)) == { i \in Idx : P(trace[i]) /\ \A j \in 1..(i - 1) : ~P(trace[j]) }

BeginsAfresh ==
    /\ \A i \in FirstIdx(LAMBDA e : e.ev = "call") :
         trace[i] = CallSetMode(upper(current_seq_data.mode))
    /\ \A i \in FirstIdx(LAMBDA e : e.ev = "check") :
         trace[i].cycle = 1 /\ trace[i].step = 1
    /\ \A i \in FirstIdx(IsStepCall) :
         trace[i] = CallSetModulation(1, 1, PlanMods[1].alpha, PlanMods[1].beta,
                        IF current_seq_data.mode = "calibration" THEN Some(0)
                        ELSE Nothing)
    /\ pc = "mode_wait" => current_cycle = 0 /\ current_theta = 0 /\ step = 0

(* C22: a run that follows a run stopped by a device failure begins with   *)
(* set_mode, then cycle 1, step 1, theta 0 (no theta in Observation): it   *)
(* takes up nothing of where the failed run stopped.                       *)
C22_FailedRunNotCarried == (prev = "failed" /\ runs >= 2) => BeginsAfresh

C22_Witness ==
    /\ prev = "failed" /\ runs >= 2 /\ current_seq_data.mode = "calibration"
    /\ \E i \in Idx : IsCall(trace[i], "send_acquire_cmd") /\ trace[i].cycle = 1

(* A step of the engine: the position in process_modulation_data moves or *)
(* the run's history grows by something other than an abort request.      *)
EngineStep ==
    \/ pc' # pc /\ pc \in {"set_mode", "mode_wait", "step", "plc_wait", "song_wait"}
    \/ Len(trace') > Len(trace) /\ trace'[Len(trace')].ev # "abort"

(* C23: no step of the engine changes the abort flag; a flag that is set   *)
(* stays set for as long as its engine object lives (the foreground engine *)
(* for good, the worker until START makes a new worker), and nothing in    *)
(* the program calls reset().                                              *)
C23_EngineNeverResetsFlag ==
    /\ [](\A i \in Idx : trace[i].ev = "abort" => abort_flag)
    /\ [][(EngineStep => abort_flag' = abort_flag)
          /\ ((abort_flag /\ ~abort_flag')
                => (engine = "GUI" /\ runs' = runs + 1 /\ pc' = "set_mode"))]_vars

C23_Witness ==
    /\ abort_flag /\ pc = "done"
    /\ \E i, j \in Idx : i < j /\ trace[i].ev = "abort" /\ trace[j].ev = "ret"

(* The angles 0, O, ..., 360 - O of a Calibration plan with offset O. *)
CycleThetas == { k * PlanOffset : k \in 0..(360 \div PlanOffset - 1) }

AbortedAtStart ==
    \E a \in Idx : trace[a].ev = "abort" /\ \A j \in 1..(a - 1) : trace[j].ev # "call"

(* C28: with the flag set before the first device call of a run, set_mode  *)
(* is still issued, once; no set_modulation and no send_acquire_cmd is     *)
(* issued; the only abort check made is the one of cycle 1, step 1, which  *)
(* finds the flag set; and a run whose set_mode succeeded returns from     *)
(* that check without success.                                             *)
C28_AbortAtStartStillSetsMode ==
    AbortedAtStart =>
      /\ pc \notin {"idle", "set_mode"} =>
           Cardinality({ i \in Idx : IsCall(trace[i], "set_mode") }) = 1
      /\ \A i \in Idx : ~IsStepCall(trace[i])
      /\ \A i \in Idx : trace[i].ev = "check" => trace[i] = AbortCheck(1, 1, TRUE)
      /\ Cardinality({ i \in Idx : trace[i].ev = "check" }) <= 1
      /\ (pc = "done" /\ \E i \in Idx : trace[i] = Return("set_mode", 0)) =>
           /\ \E i \in Idx : trace[i] = AbortCheck(1, 1, TRUE)
           /\ result = "False"
           /\ \E i \in Idx : IsStatus(trace[i], "aborted")

C28_Witness ==
    /\ engine = "CLI" /\ AbortedAtStart /\ pc = "done" /\ result = "False"
    /\ \E i \in Idx : trace[i] = AbortCheck(1, 1, TRUE)
    /\ \E i \in Idx : IsCall(trace[i], "set_mode")

C28_WitnessWorker ==
    /\ engine = "GUI" /\ AbortedAtStart /\ pc = "done" /\ result = "False"
    /\ \E i \in Idx : trace[i] = AbortCheck(1, 1, TRUE)
    /\ \E i \in Idx : IsCall(trace[i], "set_mode")

(* The abort check of the last step of the last cycle, passed. *)
LastCheckIdx ==
    { i \in Idx : trace[i] = AbortCheck(input_data.number_of_cycles,
                                        input_data.modulations_count, FALSE) }

(* An abort requested after that check, and both calls of the step succeeded. *)
AbortAfterLastCheck ==
    \E i \in LastCheckIdx :
      /\ \E a \in Idx : a > i /\ trace[a].ev = "abort"
      /\ \E j \in Idx : j > i /\ trace[j] = Return("set_modulation", 0)
      /\ \E j \in Idx : j > i /\ trace[j] = Return("send_acquire_cmd", 0)

(* C29: an abort requested after the abort check of the last step of the   *)
(* last cycle is not recognised: when both device calls of that step       *)
(* succeed the run reports success, processing_finished(True) in the       *)
(* worker, with the flag set and no "aborted" message, and the window      *)
(* reports the run as completed.                                           *)
C29_LateAbortNotRecognised ==
    AbortAfterLastCheck =>
      /\ pc = "done" /\ result = "True" /\ abort_flag
      /\ \E i \in Idx : trace[i] = Finished(TRUE)
      /\ \A i \in Idx : ~IsStatus(trace[i], "aborted") /\ trace[i] # Finished(FALSE)
      /\ engine = "GUI" =>
           \/ \E k \in 1..Len(mainq) :
                 mainq[k] = [sig |-> "processing_finished", completed |-> TRUE]
           \/ ui.report = "completed"

C29_Witness ==
    /\ engine = "GUI" /\ AbortAfterLastCheck /\ ui.report = "completed" /\ abort_flag
    /\ input_data.number_of_cycles > 1 /\ input_data.modulations_count > 1
    /\ \E a \in Idx : /\ trace[a].ev = "abort" /\ a > 1 /\ a < Len(trace)
                        /\ IsCall(trace[a - 1], "set_modulation")

YBool(b) == [type |-> "bool", value |-> b]

(* bool(x) of a returned value: a list is true when it is not empty. *)
truth_value(x) == IF x.type = "list" THEN x.elems # << >> ELSE x.value

(* C26: after a validate() call that returned, is_valid() returns True     *)
(* when that call returned True and False when it returned False.          *)
C26_IsValidReturnsVerdict ==
    (Validated /\ v_return \in {"True", "False"})
    => is_valid(validator) = YBool(v_return = "True")

(* C26 read for truth value only: is_valid() is true in a condition        *)
(* exactly when validate() returned True.                                  *)
C26_IsValidTruthOfVerdict ==
    (Validated /\ v_return \in {"True", "False"})
    => (truth_value(is_valid(validator)) <=> v_return = "True")

(* What is_valid() does return: the list of messages, never a bool.  The   *)
(* list holds a message after every validate() that returned False, so    *)
(* is_valid() is then true in a condition; the verdict itself is in the    *)
(* attribute is_valid_flag.                                                *)
C26_IsValidReturnsMessages ==
    (Validated /\ v_return \in {"True", "False"}) =>
      /\ is_valid(validator).type = "list"
      /\ is_valid(validator).elems = validator.errors
      /\ validator.is_valid_flag <=> v_return = "True"
      /\ v_return = "False" => truth_value(is_valid(validator))

C26_Witness ==
    /\ Validated /\ v_return = "True" /\ is_valid(validator) = YList(<< >>)

(* C25: abort_processing() on a MusolsongCLI sets is_aborting and leaves   *)
(* both connections closed, and has never raised.                          *)
C25_AbortClosesWithoutRaising ==
    engine = "CLI" =>
      /\ ~cli.abort_raised
      /\ abort_flag => ~musol_connected /\ ~song_connected

(* C25 for an object that has run: abort_processing() always sets the      *)
(* flag; once process_modulation_data has stored self.musol and self.song  *)
(* it closes both connections and returns, and before that it raises       *)
(* AttributeError at self.musol.close() and closes nothing.                *)
C25_AbortClosesAfterFirstRun ==
    [][(engine = "CLI" /\ ~abort_flag /\ abort_flag') =>
         IF musol_attr
         THEN /\ ~musol_connected' /\ ~song_connected'
              /\ cli'.abort_raised = cli.abort_raised
         ELSE /\ cli'.abort_raised
              /\ UNCHANGED << musol_connected, song_connected >>]_vars

(* ------------- the device traffic, whichever engine runs --------------- *)
(* What an engine and its devices exchange: the calls, their returns and   *)
(* the readings of the abort flag.                                         *)
Traffic == SelectSeq(trace, LAMBDA e : e.ev \in {"call", "ret", "check"})

PlanCycles == IF current_seq_data.mode = "observation" THEN 1 ELSE 360 \div PlanOffset

(* The two calls of step k of cycle c as the plan alone determines them. *)
PlanSetModulation(c, k) ==
    CallSetModulation(c, k, PlanMods[k].alpha, PlanMods[k].beta,
                      IF current_seq_data.mode = "observation" THEN Nothing
                      ELSE Some((c - 1) * PlanOffset))

PlanAcquire(c, k) ==
    CallAcquire(c, k, PlanMods[k].SONG_int_time,
                IF current_seq_data.mode = "observation" THEN "SUN" ELSE "CALIB",
                PlanMods[k].alpha, PlanMods[k].beta,
                IF current_seq_data.mode = "observation" THEN NO_THETA
                ELSE (c - 1) * PlanOffset,
                IF PlanMods[k].description \in {None, ""} THEN " "
                ELSE PlanMods[k].description)

(* The verdict a run ends with after traffic T, or "goes on" where the     *)
(* plan, the responses and the flag readings in T call for a next event.   *)
VerdictAfter(T) ==
    LET e == T[Len(T)] IN
    IF e.ev = "check" THEN IF e.aborted THEN "False" ELSE "goes on"
    ELSE IF e.ev = "call" THEN "goes on"
    ELSE IF e.code # 0 THEN "False"
    ELSE IF e.cmd = "send_acquire_cmd" /\ T[Len(T) - 1].step = Len(PlanMods)
            /\ T[Len(T) - 1].cycle = PlanCycles
    THEN "True"
    ELSE "goes on"

(* The event that follows T[i], given the plan: f is that event. *)
FollowsInTraffic(T, i, f) ==
    LET e == T[i] IN
    IF e.ev = "call" THEN f.ev = "ret" /\ f.cmd = e.cmd
    ELSE IF e.ev = "check" THEN ~e.aborted /\ f = PlanSetModulation(e.cycle, e.step)
    ELSE /\ e.code = 0
         /\ IF e.cmd = "set_mode" THEN f.ev = "check" /\ f.cycle = 1 /\ f.step = 1
            ELSE LET c == T[i - 1].cycle
                     k == T[i - 1].step
                 IN  IF e.cmd = "set_modulation" THEN f = PlanAcquire(c, k)
                     ELSE /\ f.ev = "check"
                          /\ IF k < Len(PlanMods) THEN f.cycle = c /\ f.step = k + 1
                             ELSE c < PlanCycles /\ f.cycle = c + 1 /\ f.step = 1

(* C24: the device traffic of a run, and where and how the run ends, are   *)
(* a function of the plan, the device responses and the readings of the    *)
(* flag alone; the engine that runs does not enter into it.                *)
C24_EnginesSameTraffic ==
    LET T == Traffic IN
    /\ T # << >> => T[1] = CallSetMode(upper(current_seq_data.mode))
    /\ \A i \in 1..(Len(T) - 1) : FollowsInTraffic(T, i, T[i + 1])
    /\ RunEnded => /\ T # << >>
                   /\ pc = "done"
                   /\ result = VerdictAfter(T)
    /\ (T # << >> /\ VerdictAfter(T) # "goes on") => RunEnded

(* C24 where the worker has a logger: the same statement. *)
C24_EnginesSameTrafficLogged == ~LoggerRaises => C24_EnginesSameTraffic

(* ------------------ properties of the command line program ------------- *)
RequestedWorkSucceeded ==
    /\ cli.file_valid
    /\ \/ cli.validate_only
       \/ pc = "done" /\ EveryStepCompleted

(* C21: run_cli_mode ends by returning 0 or 1, and returns 0 exactly when  *)
(* the file validated and, unless only validation was asked for, the run   *)
(* started with both devices connected and completed every step.           *)
C21_ExitCodeTellsSuccess ==
    cli.pc = "exited" =>
      /\ cli.exit_code \in {"0", "1"}
      /\ cli.exit_code = "0" <=> RequestedWorkSucceeded

(* C21 with system logs enabled and no Ctrl-C before the run has begun. *)
C21_ExitCodeTellsSuccessLogged ==
    (logger /\ ~cli.abort_raised) => C21_ExitCodeTellsSuccess

C21_WitnessLogged ==
    /\ cli.pc = "exited" /\ cli.exit_code = "0" /\ logger /\ ~cli.validate_only
    /\ pc = "done" /\ result = "True"

====
